---- MODULE Spec2Model ----
(***************************************************************************)
(* decofs: a passthrough filesystem.  DecoFS (src/src/deco.rs) answers the *)
(* operations of the mount driver by forwarding them to the real           *)
(* filesystem through the libc wrappers (src/src/libc_wrapper.rs) and the  *)
(* per-read file wrapper UnmanagedFile (src/src/unmanaged_file.rs).        *)
(*                                                                         *)
(* A path is the sequence of its components, "/" being the root component, *)
(* as std::path compares and joins paths.  An io::Error is the OS error    *)
(* code it carries, or NoCode when it carries none.                        *)
(***************************************************************************)
EXTENDS FiniteSets, Integers, Sequences, TLC

VARIABLES
    sourceroot,   \* DecoFS.sourceroot, set by DecoFS::new
    phase,        \* "constructed", "mounted" (after init), "destroyed"
    fdTable,      \* the process's descriptor table: fd -> NoFd or an open file description
    closes,       \* per open file description: the close() calls that reached it
    handles,      \* the handles the mount driver was given by open, in order
    workers,      \* per pool thread: Idle or the read request it is serving
    lastRes       \* what the last step returned to the mount driver

vars == <<sourceroot, phase, fdTable, closes, handles, workers, lastRes>>

----------------------------------------------------------------------------
\* Bounds of the model.
MaxOpens  == 2    \* successful opens in one run
MaxOffset == 2    \* largest requested offset
MaxSize   == 2    \* largest requested length
MaxDepth  == 3    \* components after the root in a virtual path (SpecPath)
MTThreads == 2    \* size of the driver's pool in SpecMT

\* fuse_mt::FuseMT::new(filesystem, 1): the pool that runs read has one thread.
NumThreads == 1

----------------------------------------------------------------------------
\* Error values.
NoErr  == "ok"
NoCode == "nocode"       \* an io::Error with raw_os_error() = None
ENOENT == "ENOENT"
EBADF  == "EBADF"
EIO    == "EIO"
EMFILE == "EMFILE"
ENOTDIR == "ENOTDIR"
Faults == {NoErr, EIO}   \* what the OS may answer to a call that could succeed

NUL  == "\\0"            \* a component holding a NUL byte
Root == "/"

Min(a, b) == IF a < b THEN a ELSE b

IsPrefix(a, b) == Len(a) <= Len(b) /\ SubSeq(b, 1, Len(a)) = a

----------------------------------------------------------------------------
\* Path Translator.

PrefixError == <<"StripPrefixError">>

\* Path::strip_prefix: the components after base, or an error.
StripPrefix(path, base) ==
    IF IsPrefix(base, path) THEN SubSeq(path, Len(base) + 1, Len(path))
    ELSE PrefixError

IsAbsolute(path) == Len(path) > 0 /\ path[1] = Root

\* PathBuf::join: an absolute argument replaces the base.
Join(base, path) == IF IsAbsolute(path) THEN path ELSE base \o path

Panic == <<"panic">>

\* DecoFS::real_path; unwrap() panics on a path that is not absolute.
RealPath(root, partial) ==
    LET rest == StripPrefix(partial, <<Root>>)
    IN  IF rest = PrefixError THEN Panic ELSE Join(root, rest)

\* The location a path names: ".." steps to the parent, the root is its own parent.
RECURSIVE Normalize(_)
Normalize(path) ==
    IF Len(path) = 0 THEN <<>>
    ELSE LET front == Normalize(SubSeq(path, 1, Len(path) - 1))
             last  == path[Len(path)]
         IN  IF last = ".."
             THEN IF Len(front) > 1 THEN SubSeq(front, 1, Len(front) - 1) ELSE front
             ELSE Append(front, last)

----------------------------------------------------------------------------
\* The real filesystem under the mount.

DataRoot == <<Root, "data">>

NoNode == [fmt |-> "none", perm |-> 0, content |-> <<>>, entries |-> <<>>]

Node(real) ==
    CASE real = <<Root>>            -> [fmt |-> "S_IFDIR", perm |-> 493, content |-> <<>>, entries |-> <<"data">>]
      [] real = DataRoot            -> [fmt |-> "S_IFDIR", perm |-> 493, content |-> <<>>, entries |-> <<"a", "d", "l">>]
      [] real = DataRoot \o <<"a">> -> [fmt |-> "S_IFREG", perm |-> 420, content |-> <<11, 12>>, entries |-> <<>>]
      [] real = DataRoot \o <<"d">> -> [fmt |-> "S_IFDIR", perm |-> 448, content |-> <<>>, entries |-> <<>>]
      [] real = DataRoot \o <<"l">> -> [fmt |-> "S_IFLNK", perm |-> 511, content |-> <<>>, entries |-> <<>>]
      [] OTHER                      -> NoNode

Lookup(real) == Node(Normalize(real))

HasNul(path) == \E i \in 1..Len(path) : path[i] = NUL

----------------------------------------------------------------------------
\* The OS: descriptor table and primitives.  A primitive that could succeed
\* answers the fault the environment chose for it (NoErr for success).

FDs == 3..(MaxOpens + 2)
NoFd == [inst |-> 0, real |-> <<>>, pos |-> 0]
FreeFds(fdT) == {fd \in FDs : fdT[fd] = NoFd}
OpenFds(fdT) == {fd \in FDs : fdT[fd] # NoFd}
IsOpenFd(fdT, fd) == fd \in FDs /\ fdT[fd] # NoFd

NoStat == [st_fmt |-> "none", st_perm |-> 0, st_size |-> 0]
StatOf(node) == [st_fmt |-> node.fmt, st_perm |-> node.perm, st_size |-> Len(node.content)]

\* open(2): the lowest free descriptor, on a fresh open file description inst.
OsOpen(fdT, real, inst, fault) ==
    IF fault # NoErr THEN [err |-> fault, fd |-> 0, fdT |-> fdT]
    ELSE IF Lookup(real) = NoNode THEN [err |-> ENOENT, fd |-> 0, fdT |-> fdT]
    ELSE IF FreeFds(fdT) = {} THEN [err |-> EMFILE, fd |-> 0, fdT |-> fdT]
    ELSE LET fd == CHOOSE f \in FreeFds(fdT) : \A g \in FreeFds(fdT) : f <= g
         IN  [err |-> NoErr, fd |-> fd,
              fdT |-> [fdT EXCEPT ![fd] = [inst |-> inst, real |-> Normalize(real), pos |-> 0]]]

\* close(2): an open descriptor is released whatever close answers.
OsClose(fdT, cl, fd, fault) ==
    IF ~IsOpenFd(fdT, fd) THEN [err |-> EBADF, fdT |-> fdT, closes |-> cl, hit |-> 0]
    ELSE [err |-> fault, fdT |-> [fdT EXCEPT ![fd] = NoFd],
          closes |-> [cl EXCEPT ![fdT[fd].inst] = @ + 1], hit |-> fdT[fd].inst]

\* lseek(2), SEEK_SET.
OsLseek(fdT, fd, off, fault) ==
    IF ~IsOpenFd(fdT, fd) THEN [err |-> EBADF, fdT |-> fdT, hit |-> 0]
    ELSE IF fault # NoErr THEN [err |-> fault, fdT |-> fdT, hit |-> fdT[fd].inst]
    ELSE [err |-> NoErr, fdT |-> [fdT EXCEPT ![fd].pos = off], hit |-> fdT[fd].inst]

\* read(2) of a regular file: from the description's position, which it advances.
OsRead(fdT, fd, size, fault) ==
    IF ~IsOpenFd(fdT, fd) THEN [err |-> EBADF, n |-> 0, bytes |-> <<>>, fdT |-> fdT, hit |-> 0]
    ELSE IF fault # NoErr
         THEN [err |-> fault, n |-> 0, bytes |-> <<>>, fdT |-> fdT, hit |-> fdT[fd].inst]
    ELSE LET content == Node(fdT[fd].real).content
             pos     == fdT[fd].pos
             n       == IF pos >= Len(content) THEN 0 ELSE Min(size, Len(content) - pos)
         IN  [err |-> NoErr, n |-> n,
              bytes |-> [i \in 1..n |-> content[pos + i]],
              fdT |-> [fdT EXCEPT ![fd].pos = pos + n], hit |-> fdT[fd].inst]

OsFstat(fdT, fd, fault) ==
    IF ~IsOpenFd(fdT, fd) THEN [err |-> EBADF, stat |-> NoStat, hit |-> 0]
    ELSE IF fault # NoErr THEN [err |-> fault, stat |-> NoStat, hit |-> fdT[fd].inst]
    ELSE [err |-> NoErr, stat |-> StatOf(Node(fdT[fd].real)), hit |-> fdT[fd].inst]

\* lstat(2): the last component is not followed.
OsLstat(real, fault) ==
    IF fault # NoErr THEN [err |-> fault, stat |-> NoStat]
    ELSE IF Lookup(real) = NoNode THEN [err |-> ENOENT, stat |-> NoStat]
    ELSE [err |-> NoErr, stat |-> StatOf(Lookup(real))]

NoStatfs == [f_blocks |-> 0, f_bfree |-> 0, f_bsize |-> 0]
OsStatfs(real, fault) ==
    IF fault # NoErr THEN [err |-> fault, stat |-> NoStatfs]
    ELSE IF Lookup(real) = NoNode THEN [err |-> ENOENT, stat |-> NoStatfs]
    ELSE [err |-> NoErr, stat |-> [f_blocks |-> 8, f_bfree |-> 5, f_bsize |-> 512]]

\* opendir(3) as std::fs::read_dir issues it.
OsOpendir(real, fault) ==
    IF fault # NoErr THEN [err |-> fault, names |-> <<>>]
    ELSE IF Lookup(real) = NoNode THEN [err |-> ENOENT, names |-> <<>>]
    ELSE IF Lookup(real).fmt # "S_IFDIR" THEN [err |-> ENOTDIR, names |-> <<>>]
    ELSE [err |-> NoErr, names |-> Lookup(real).entries]

----------------------------------------------------------------------------
\* Syscall Gateway (libc_wrapper.rs).  calls counts the OS primitives issued.

\* CString::new fails, with no OS code, on a path holding a NUL byte.
LibcOpen(fdT, real, inst, fault) ==
    IF HasNul(real) THEN [err |-> NoCode, fd |-> 0, fdT |-> fdT, calls |-> 0]
    ELSE LET r == OsOpen(fdT, real, inst, fault)
         IN  [err |-> r.err, fd |-> r.fd, fdT |-> r.fdT, calls |-> 1]

\* A close that never reaches the OS.
CloseSkipped(fdT, cl, fh, fault) == [err |-> NoErr, fdT |-> fdT, closes |-> cl, hit |-> 0]
LibcClose(fdT, cl, fh, fault) == OsClose(fdT, cl, fh, fault)

LibcFstat(fdT, fh, fault) == OsFstat(fdT, fh, fault)

LibcLstat(real, fault) ==
    IF HasNul(real) THEN [err |-> NoCode, stat |-> NoStat, calls |-> 0]
    ELSE LET r == OsLstat(real, fault) IN [err |-> r.err, stat |-> r.stat, calls |-> 1]

LibcStatfs(real, fault) ==
    IF HasNul(real) THEN [err |-> NoCode, stat |-> NoStatfs, calls |-> 0]
    ELSE LET r == OsStatfs(real, fault) IN [err |-> r.err, stat |-> r.stat, calls |-> 1]

\* std::fs::read_dir
FsReadDir(real, fault) ==
    IF HasNul(real) THEN [err |-> NoCode, names |-> <<>>, calls |-> 0]
    ELSE LET r == OsOpendir(real, fault) IN [err |-> r.err, names |-> r.names, calls |-> 1]

----------------------------------------------------------------------------
\* UnmanagedFile (unmanaged_file.rs).

UnmanagedFileNew(fd) == [inner |-> fd]

\* A File that is dropped closes its descriptor and ignores what close answers.
CloseOnDrop(fdT, cl, file) ==
    LET r == OsClose(fdT, cl, file.inner, NoErr) IN [fdT |-> r.fdT, closes |-> r.closes]

\* Drop for UnmanagedFile: into_raw_fd() gives the descriptor up without closing it.
UnmanagedFileDrop(fdT, cl, file) == [fdT |-> fdT, closes |-> cl]

UnmanagedFileSeek(fdT, file, off, fault) == OsLseek(fdT, file.inner, off, fault)

UnmanagedFileRead(fdT, file, size, fault) == OsRead(fdT, file.inner, size, fault)

----------------------------------------------------------------------------
\* Attribute Translator.

ModeToFiletype(fmt) ==
    CASE fmt = "S_IFDIR"  -> "Directory"
      [] fmt = "S_IFREG"  -> "RegularFile"
      [] fmt = "S_IFLNK"  -> "Symlink"
      [] fmt = "S_IFBLK"  -> "BlockDevice"
      [] fmt = "S_IFCHR"  -> "CharDevice"
      [] fmt = "S_IFIFO"  -> "NamedPipe"
      [] fmt = "S_IFSOCK" -> "Socket"
      [] OTHER            -> "panic"

NoAttr == [kind |-> "none", perm |-> 0, size |-> 0]
StatToFuse(stat) ==
    [kind |-> ModeToFiletype(stat.st_fmt), perm |-> stat.st_perm, size |-> stat.st_size]

StatToFiletype(stat) == ModeToFiletype(stat.st_fmt)

StatfsToFuse(statfs) ==
    [blocks |-> statfs.f_blocks, bfree |-> statfs.f_bfree, bsize |-> statfs.f_bsize]

\* e.raw_os_error().unwrap_or(ENOENT)
ErrnoAlwaysENOENT(e) == ENOENT
RawOsErrorOrENOENT(e) == IF e = NoCode THEN ENOENT ELSE e

----------------------------------------------------------------------------
\* What an operation hands back to the mount driver, until the driver has sent it on.
\*   ok/err   the Result: Ok(..) or Err(err)
\*   oserr    the io::Error of the call that failed inside the operation
\*   calls    the OS primitives the operation issued
\*   hit      the open file description its descriptor calls acted on (0: none)
\*   k        readdir: the entry the OS failed on (0: none)
\*   served   release: what the handle had served ("none", "ok", "failed" reads)
NoRes ==
    [op |-> "none", path |-> <<>>, real |-> <<>>, h |-> 0, off |-> 0, size |-> 0,
     ok |-> TRUE, err |-> NoErr, oserr |-> NoErr, calls |-> 0, hit |-> 0,
     fh |-> 0, k |-> 0, served |-> "none", data |-> <<>>, entries |-> <<>>, attr |-> <<>>]

Idle == [h |-> 0, fh |-> 0, off |-> 0, size |-> 0, hit |-> 0]

\* The virtual paths the mount driver asks about.
VPaths    == { <<Root>>, <<Root, "a">>, <<Root, "missing">>, <<Root, NUL>> }
FilePaths == { <<Root, "a">>, <<Root, "missing">>, <<Root, NUL>> }
Flags     == {"O_RDONLY"}

Offsets == 0..MaxOffset
Sizes   == 1..MaxSize

OpenHandles == {h \in 1..Len(handles) : handles[h].status = "Open"}
Busy(h) == \E w \in DOMAIN workers : workers[w].h = h

\* The driver runs a request when it is mounted and has sent the last answer on.
Ready == phase = "mounted" /\ lastRes = NoRes

\* Err(e.raw_os_error().unwrap_or(ENOENT)), on the answer res
Failed(res, e) == [res EXCEPT !.ok = FALSE, !.oserr = e, !.err = RawOsErrorOrENOENT(e)]

----------------------------------------------------------------------------
\* Filesystem Facade (impl FilesystemMT for DecoFS).

FsInit ==
    /\ phase = "constructed"
    /\ phase' = "mounted"
    /\ UNCHANGED <<sourceroot, fdTable, closes, handles, workers, lastRes>>

FsDestroy ==
    /\ Ready
    /\ OpenHandles = {}
    /\ \A w \in DOMAIN workers : workers[w] = Idle
    /\ phase' = "destroyed"
    /\ UNCHANGED <<sourceroot, fdTable, closes, handles, workers, lastRes>>

\* getattr with fh = None: lstat of the real path.
Getattr(path, fault) ==
    /\ Ready
    /\ LET real == RealPath(sourceroot, path)
           r    == LibcLstat(real, fault)
           res  == [NoRes EXCEPT !.op = "getattr", !.path = path, !.real = real,
                                 !.calls = r.calls]
       IN  lastRes' = IF r.err = NoErr THEN [res EXCEPT !.attr = StatToFuse(r.stat)]
                      ELSE Failed(res, r.err)
    /\ UNCHANGED <<sourceroot, phase, fdTable, closes, handles, workers>>

\* getattr with fh = Some(fh): fstat of the descriptor.
GetattrFh(h, fault) ==
    /\ Ready
    /\ h \in OpenHandles
    /\ LET fh  == handles[h].fh
           r   == LibcFstat(fdTable, fh, fault)
           res == [NoRes EXCEPT !.op = "fgetattr", !.path = handles[h].path, !.h = h,
                                !.fh = fh, !.calls = 1, !.hit = r.hit]
       IN  lastRes' = IF r.err = NoErr THEN [res EXCEPT !.attr = StatToFuse(r.stat)]
                      ELSE Failed(res, r.err)
    /\ UNCHANGED <<sourceroot, phase, fdTable, closes, handles, workers>>

Statfs(path, fault) ==
    /\ Ready
    /\ LET real == RealPath(sourceroot, path)
           r    == LibcStatfs(real, fault)
           res  == [NoRes EXCEPT !.op = "statfs", !.path = path, !.real = real,
                                 !.calls = r.calls]
       IN  lastRes' = IF r.err = NoErr THEN [res EXCEPT !.attr = StatfsToFuse(r.stat)]
                      ELSE Failed(res, r.err)
    /\ UNCHANGED <<sourceroot, phase, fdTable, closes, handles, workers>>

Opendir(path) ==
    /\ Ready
    /\ lastRes' = [NoRes EXCEPT !.op = "opendir", !.path = path,
                                !.real = RealPath(sourceroot, path)]
    /\ UNCHANGED <<sourceroot, phase, fdTable, closes, handles, workers>>

Releasedir(path) ==
    /\ Ready
    /\ lastRes' = [NoRes EXCEPT !.op = "releasedir", !.path = path,
                                !.real = RealPath(sourceroot, path)]
    /\ UNCHANGED <<sourceroot, phase, fdTable, closes, handles, workers>>

\* The loop of readdir over the listing iterator: iterOut[i] is what the iterator
\* answers for entry i, statOut[i] what lstat answers for it.
RECURSIVE ReaddirLoop(_, _, _, _, _, _, _)
ReaddirLoop(real, names, i, entries, calls, iterOut, statOut) ==
    IF i > Len(names) THEN [oserr |-> NoErr, entries |-> entries, calls |-> calls]
    ELSE IF iterOut[i] # NoErr
         THEN [oserr |-> iterOut[i], entries |-> <<>>, calls |-> calls + 1]
    ELSE LET real_path == real \o <<names[i]>>
             st        == LibcLstat(real_path, statOut[i])
         IN  IF st.err # NoErr
             THEN [oserr |-> st.err, entries |-> <<>>, calls |-> calls + 1 + st.calls]
             ELSE ReaddirLoop(real, names, i + 1,
                              Append(entries, [name |-> real_path[Len(real_path)],
                                               kind |-> StatToFiletype(st.stat)]),
                              calls + 1 + st.calls, iterOut, statOut)

\* A loop that answers with what it has collected when an entry fails.
RECURSIVE ReaddirLoopPartial(_, _, _, _, _, _, _)
ReaddirLoopPartial(real, names, i, entries, calls, iterOut, statOut) ==
    IF i > Len(names) THEN [oserr |-> NoErr, entries |-> entries, calls |-> calls]
    ELSE IF iterOut[i] # NoErr
         THEN [oserr |-> iterOut[i], entries |-> entries, calls |-> calls + 1]
    ELSE LET real_path == real \o <<names[i]>>
             st        == LibcLstat(real_path, statOut[i])
         IN  IF st.err # NoErr
             THEN [oserr |-> NoErr, entries |-> entries, calls |-> calls + 1 + st.calls]
             ELSE ReaddirLoopPartial(real, names, i + 1,
                              Append(entries, [name |-> real_path[Len(real_path)],
                                               kind |-> StatToFiletype(st.stat)]),
                              calls + 1 + st.calls, iterOut, statOut)

ListEntriesPartial(real, names, iterOut, statOut) ==
    ReaddirLoopPartial(real, names, 1, <<>>, 1, iterOut, statOut)

\* for entry in iter { .. }, entries starting empty, after the one opendir call.
ListEntries(real, names, iterOut, statOut) ==
    ReaddirLoop(real, names, 1, <<>>, 1, iterOut, statOut)

\* The answers of the OS to one listing: at most one entry fails, at its
\* iterator step or at its lstat.
EntryOutcomes(n) ==
    { [k |-> k, which |-> which,
       iter |-> [i \in 1..n |-> IF i = k /\ which = "iter" THEN EIO ELSE NoErr],
       stat |-> [i \in 1..n |-> IF i = k /\ which = "lstat" THEN EIO ELSE NoErr]]
      : k \in 0..n, which \in {"iter", "lstat"} }

Readdir(path, fault) ==
    /\ Ready
    /\ LET real == RealPath(sourceroot, path)
           d    == FsReadDir(real, fault)
           res  == [NoRes EXCEPT !.op = "readdir", !.path = path, !.real = real]
       IN  IF d.err # NoErr
           THEN lastRes' = Failed([res EXCEPT !.calls = d.calls], d.err)
           ELSE \E out \in EntryOutcomes(Len(d.names)) :
                  LET r == ListEntries(real, d.names, out.iter, out.stat)
                  IN  lastRes' =
                        IF r.oserr = NoErr
                        THEN [res EXCEPT !.calls = r.calls, !.entries = r.entries,
                                         !.k = out.k]
                        ELSE Failed([res EXCEPT !.calls = r.calls, !.entries = r.entries,
                                                !.k = out.k], r.oserr)
    /\ UNCHANGED <<sourceroot, phase, fdTable, closes, handles, workers>>

Open(path, flags, fault) ==
    /\ Ready
    /\ Len(handles) < MaxOpens
    /\ LET real == RealPath(sourceroot, path)
           r    == LibcOpen(fdTable, real, Len(handles) + 1, fault)
           res  == [NoRes EXCEPT !.op = "open", !.path = path, !.real = real,
                                 !.calls = r.calls]
       IN  /\ fdTable' = r.fdT
           /\ IF r.err = NoErr
              THEN /\ handles' = Append(handles,
                                   [fh |-> r.fd, path |-> path, status |-> "Open",
                                    reads |-> "none"])
                   /\ lastRes' = [res EXCEPT !.h = Len(handles) + 1, !.fh = r.fd,
                                             !.hit = Len(handles) + 1]
              ELSE /\ handles' = handles
                   /\ lastRes' = Failed(res, r.err)
    /\ UNCHANGED <<sourceroot, phase, closes, workers>>

\* The driver sends release once no request on the handle is in flight, and
\* forgets the handle whatever release answers.
Release(h, fault) ==
    /\ Ready
    /\ h \in OpenHandles
    /\ ~Busy(h)
    /\ LET fh  == handles[h].fh
           r   == LibcClose(fdTable, closes, fh, fault)
           res == [NoRes EXCEPT !.op = "release", !.path = handles[h].path, !.h = h,
                                !.fh = fh, !.calls = 1, !.hit = r.hit,
                                !.served = handles[h].reads]
       IN  /\ fdTable' = r.fdT
           /\ closes' = r.closes
           /\ lastRes' = IF r.err = NoErr THEN res ELSE Failed(res, r.err)
    /\ handles' = [handles EXCEPT ![h].status = "Released", ![h].reads = "none"]
    /\ UNCHANGED <<sourceroot, phase, workers>>

\* data.resize(size, 0)
Zeroed(size) == [i \in 1..size |-> 0]
\* read(2) into the front of the buffer
Fill(data, bytes) == [i \in 1..Len(data) |-> IF i <= Len(bytes) THEN bytes[i] ELSE data[i]]
KeepWholeBuffer(data, n) == data
\* data.truncate(n)
Truncate(data, n) == SubSeq(data, 1, n)

\* read, up to the answer of seek: the wrapper is built and the descriptor
\* positioned; a failed seek answers the request and drops the wrapper.
ReadSeek(w, h, offset, size, fault) ==
    /\ Ready
    /\ workers[w] = Idle
    /\ h \in OpenHandles
    /\ LET fh   == handles[h].fh
           file == UnmanagedFileNew(fh)
           r    == UnmanagedFileSeek(fdTable, file, offset, fault)
       IN  IF r.err # NoErr
           THEN LET d == UnmanagedFileDrop(r.fdT, closes, file)
                IN  /\ fdTable' = d.fdT
                    /\ closes' = d.closes
                    /\ workers' = workers
                    /\ handles' = [handles EXCEPT ![h].reads = "failed"]
                    /\ lastRes' = Failed([NoRes EXCEPT !.op = "read",
                                        !.path = handles[h].path, !.h = h, !.fh = fh,
                                        !.off = offset, !.size = size, !.calls = 1,
                                        !.hit = r.hit], r.err)
           ELSE /\ fdTable' = r.fdT
                /\ workers' = [workers EXCEPT ![w] =
                                  [h |-> h, fh |-> fh, off |-> offset, size |-> size,
                                   hit |-> r.hit]]
                /\ UNCHANGED <<closes, handles, lastRes>>
    /\ UNCHANGED <<sourceroot, phase>>

\* read, from the answer of seek on: the read, the callback, the wrapper dropped.
ReadRead(w, fault) ==
    /\ Ready
    /\ workers[w] # Idle
    /\ LET req  == workers[w]
           file == UnmanagedFileNew(req.fh)
           r    == UnmanagedFileRead(fdTable, file, req.size, fault)
           d    == UnmanagedFileDrop(r.fdT, closes, file)
           res  == [NoRes EXCEPT !.op = "read", !.path = handles[req.h].path,
                                 !.h = req.h, !.fh = req.fh, !.off = req.off,
                                 !.size = req.size, !.calls = 2, !.hit = r.hit]
       IN  /\ fdTable' = d.fdT
           /\ closes' = d.closes
           /\ workers' = [workers EXCEPT ![w] = Idle]
           /\ IF r.err = NoErr
              THEN /\ handles' = [handles EXCEPT ![req.h].reads =
                                                  IF @ = "failed" THEN @ ELSE "ok"]
                   /\ lastRes' = [res EXCEPT !.data =
                                     Truncate(Fill(Zeroed(req.size), r.bytes), r.n)]
              ELSE /\ handles' = [handles EXCEPT ![req.h].reads = "failed"]
                   /\ lastRes' = Failed(res, r.err)
    /\ UNCHANGED <<sourceroot, phase>>

\* The mount driver sends the answer to the kernel.
Reply ==
    /\ lastRes # NoRes
    /\ lastRes' = NoRes
    /\ UNCHANGED <<sourceroot, phase, fdTable, closes, handles, workers>>

----------------------------------------------------------------------------
\* DecoFS::new(sourceroot), nothing opened, a pool of n threads.
InitWith(roots, n) ==
    /\ sourceroot \in roots
    /\ phase = "constructed"
    /\ fdTable = [fd \in FDs |-> NoFd]
    /\ closes = [i \in 1..MaxOpens |-> 0]
    /\ handles = <<>>
    /\ workers = [w \in 1..n |-> Idle]
    /\ lastRes = NoRes

Init == InitWith({DataRoot}, NumThreads)

Next ==
    \/ FsInit
    \/ FsDestroy
    \/ Reply
    \/ \E p \in VPaths, f \in Faults : Getattr(p, f)
    \/ \E h \in 1..MaxOpens, f \in Faults : GetattrFh(h, f)
    \/ \E p \in VPaths, f \in Faults : Statfs(p, f)
    \/ \E p \in VPaths : Opendir(p)
    \/ \E p \in VPaths, f \in Faults : Readdir(p, f)
    \/ \E p \in VPaths : Releasedir(p)
    \/ \E p \in FilePaths, fl \in Flags, f \in Faults : Open(p, fl, f)
    \/ \E h \in 1..MaxOpens, f \in Faults : Release(h, f)
    \/ \E w \in DOMAIN workers, h \in 1..MaxOpens, o \in Offsets, s \in Sizes, f \in Faults :
          ReadSeek(w, h, o, s, f)
    \/ \E w \in DOMAIN workers, f \in Faults : ReadRead(w, f)

Spec == Init /\ [][Next]_vars

\* The same operations under a driver whose pool has MTThreads threads.
InitMT == InitWith({DataRoot}, MTThreads)
SpecMT == InitMT /\ [][Next]_vars

\* Path translation alone: any sourceroot, any absolute path of up to MaxDepth
\* components, ".." among them, through the two operations that only translate.
SourceRoots == { <<Root>>, DataRoot, DataRoot \o <<"d">> }
Components  == {"a", "d", ".."}
AbsPaths ==
    { <<Root>> \o t : t \in UNION { [1..n -> Components] : n \in 0..MaxDepth } }

InitPath == InitWith(SourceRoots, NumThreads)
NextPath ==
    \/ FsInit
    \/ Reply
    \/ \E p \in AbsPaths : Opendir(p)
    \/ \E p \in AbsPaths : Releasedir(p)
SpecPath == InitPath /\ [][NextPath]_vars

----------------------------------------------------------------------------
\* Properties.

\* The bytes of the file behind handle h.
ContentOf(h) == Lookup(RealPath(sourceroot, handles[h].path)).content

\* The bytes of content in [offset, min(offset + size, Len(content))).
Slice(content, offset, size) ==
    IF offset >= Len(content) THEN <<>>
    ELSE [i \in 1..Min(size, Len(content) - offset) |-> content[offset + i]]

\* An error the OS chose to answer, as opposed to one the state of the
\* descriptor table forces (EBADF).
ByFault(res) == res.oserr \in (Faults \ {NoErr})

\* C1: as long as the driver holds a handle as open (opened, any reads served,
\* not released) its descriptor is open in the OS, on the description open made.
C1_OpenHandleKeepsDescriptor ==
    \A h \in OpenHandles :
        /\ IsOpenFd(fdTable, handles[h].fh)
        /\ fdTable[handles[h].fh].inst = h
        /\ closes[h] = 0

\* A handle that served a failed read and then more, answered, still held open.
C1_Witness ==
    \E h \in OpenHandles :
        /\ handles[h].reads = "failed"
        /\ lastRes = NoRes
        /\ ~Busy(h)
        /\ IsOpenFd(fdTable, handles[h].fh)

\* C2: close reaches the description of a handle exactly once, when the handle is
\* released, and never before; and a read answers either the file's bytes at
\* its own offset or the fault the OS raised, whatever was read before it.
C2_ClosedExactlyOnceByRelease ==
    /\ \A h \in 1..MaxOpens :
          closes[h] = IF h <= Len(handles) /\ handles[h].status = "Released" THEN 1 ELSE 0
    /\ lastRes.op = "read" =>
          \/ ByFault(lastRes)
          \/ /\ lastRes.ok
             /\ lastRes.data = Slice(ContentOf(lastRes.h), lastRes.off, lastRes.size)

\* open, reads that succeeded, release answered Ok.
C2_Witness ==
    /\ lastRes.op = "release"
    /\ lastRes.ok
    /\ lastRes.served = "ok"
    /\ closes[lastRes.h] = 1

C4_HitOwn ==
    /\ lastRes.op \in {"read", "fgetattr", "release"} => lastRes.hit = lastRes.h
    /\ \A w \in DOMAIN workers :
          workers[w] # Idle =>
              workers[w].hit = workers[w].h /\ handles[workers[w].h].status = "Open"
    /\ \A fd \in OpenFds(fdTable) :
          /\ handles[fdTable[fd].inst].status = "Open"
          /\ handles[fdTable[fd].inst].fh = fd
C4_ReleasedIsTerminal ==
    /\ []C4_HitOwn
    /\ [][\A h \in 1..Len(handles) :
             handles[h].status = "Released" =>
                 handles'[h].status = "Released" /\ handles'[h].fh = handles[h].fh]_vars

\* A read served on a handle whose integer an earlier, released handle had.
C4_Witness ==
    \E h1, h2 \in 1..Len(handles) :
        /\ h1 # h2
        /\ handles[h1].status = "Released"
        /\ handles[h2].status = "Open"
        /\ handles[h1].fh = handles[h2].fh
        /\ lastRes.op = "read" /\ lastRes.h = h2 /\ lastRes.ok

\* C5: a read the OS does not fail succeeds with exactly the bytes in
\* [offset, min(offset + size, S)): none at or past the end, fewer than asked
\* when the request runs past the end.
C5_ReadReturnsSlice ==
    (lastRes.op = "read" /\ ~ByFault(lastRes)) =>
        LET content == ContentOf(lastRes.h)
            S       == Len(content)
            want    == IF lastRes.off >= S THEN 0 ELSE Min(lastRes.size, S - lastRes.off)
        IN  /\ lastRes.ok
            /\ Len(lastRes.data) = want
            /\ \A i \in 1..want : lastRes.data[i] = content[lastRes.off + i]

\* A request running past the end of the file: fewer bytes than asked, not none.
C5_Witness ==
    /\ lastRes.op = "read"
    /\ lastRes.ok
    /\ lastRes.off + lastRes.size > Len(ContentOf(lastRes.h))
    /\ Len(lastRes.data) > 0
    /\ Len(lastRes.data) < lastRes.size

\* C6: a read that fails answers the OS error code and leaves the descriptor
\* open on its description; a later read of the same handle that the OS does
\* not fail succeeds with the right bytes.
C6_FailedReadKeepsDescriptor ==
    lastRes.op = "read" =>
        /\ ~lastRes.ok =>
              /\ lastRes.err = lastRes.oserr
              /\ IsOpenFd(fdTable, lastRes.fh)
              /\ fdTable[lastRes.fh].inst = lastRes.h
        /\ (handles[lastRes.h].reads = "failed" /\ ~ByFault(lastRes)) =>
              /\ lastRes.ok
              /\ lastRes.data = Slice(ContentOf(lastRes.h), lastRes.off, lastRes.size)

\* A read that succeeds with bytes on a handle on which a read has failed.
C6_Witness ==
    /\ lastRes.op = "read"
    /\ lastRes.ok
    /\ handles[lastRes.h].reads = "failed"
    /\ Len(lastRes.data) > 0

\* The listing readdir answers when nothing fails.
FullListing(real) ==
    LET names == Lookup(real).entries
    IN  [i \in 1..Len(names) |->
            [name |-> names[i], kind |-> ModeToFiletype(Lookup(real \o <<names[i]>>).fmt)]]

\* C7: readdir answers an error code and no entry when opening the directory,
\* the iterator or the lstat of one entry fails, and the whole classified
\* listing otherwise.
C7_ReaddirAtomic ==
    lastRes.op = "readdir" =>
        /\ lastRes.k > 0 => ~lastRes.ok
        /\ ~lastRes.ok => lastRes.entries = <<>> /\ lastRes.err # NoErr
        /\ lastRes.ok => lastRes.entries = FullListing(lastRes.real)

\* The last of three entries fails after two were collected.
C7_Witness ==
    /\ lastRes.op = "readdir"
    /\ ~lastRes.ok
    /\ lastRes.k = Len(Lookup(lastRes.real).entries)
    /\ lastRes.k > 1
    /\ lastRes.entries = <<>>

\* C8: an operation fails exactly when a call inside it failed; it then answers
\* that call's OS code, ENOENT standing in only for a missing code, and issued
\* no further call (one call per operation, seek then read for read, the
\* listing calls up to the failing one for readdir).
C8_ErrorsUnchanged ==
    /\ lastRes.ok <=> lastRes.oserr = NoErr
    /\ lastRes.ok <=> lastRes.err = NoErr
    /\ ~lastRes.ok =>
          /\ lastRes.err = IF lastRes.oserr = NoCode THEN ENOENT ELSE lastRes.oserr
          /\ lastRes.op \in {"getattr", "fgetattr", "statfs", "open", "release"} =>
                lastRes.calls = IF lastRes.oserr = NoCode THEN 0 ELSE 1
          /\ lastRes.op = "read" => lastRes.calls \in {1, 2}

\* release answering the code close reported.
C8_Witness ==
    /\ lastRes.op = "release"
    /\ ~lastRes.ok
    /\ lastRes.oserr = EIO
    /\ lastRes.err = EIO

\* C9: the real path is sourceroot followed by the components of the virtual
\* path after its root, and the location it names is sourceroot or below it.
C9_RealPathUnderSourceroot ==
    lastRes.op \in {"opendir", "releasedir"} =>
        /\ lastRes.real = sourceroot \o Tail(lastRes.path)
        /\ IsPrefix(Normalize(sourceroot), Normalize(lastRes.real))

\* C10: the set of open descriptors grows by the one descriptor a successful
\* open answers, shrinks by the one a successful release was given, and is
\* left as it was by a failed open and by every other step.
C10_FrameStep ==
    LET before == OpenFds(fdTable)
        after  == OpenFds(fdTable')
        res    == lastRes'
    IN  /\ (res.op = "open" /\ res.ok) =>
               res.fh \notin before /\ after = before \cup {res.fh}
        /\ (res.op = "open" /\ ~res.ok) => after = before
        /\ (res.op = "release" /\ res.ok) =>
               res.fh \in before /\ after = before \ {res.fh}
        /\ res.op \notin {"open", "release"} => after = before
C10_DescriptorsChangeOnlyByOpenRelease == [][C10_FrameStep]_vars

\* Two descriptors open, one of them released with success after reads.
C10_Witness ==
    /\ lastRes.op = "release"
    /\ lastRes.ok
    /\ lastRes.served # "none"
    /\ Cardinality(OpenFds(fdTable)) = MaxOpens - 1

====
